---- MODULE Spec2Model ----
(***************************************************************************)
(* Model of src/transformation/utils/diagnostics.ts: the diagnostic        *)
(* factory builder, its two severity specializations and the catalog of    *)
(* diagnostic factories, invoked by transformation workers on AST nodes.   *)
(*                                                                         *)
(* JavaScript values are modelled as follows.                              *)
(*   - a string is a TLA+ string; an AnnotationKind, whose characters the  *)
(*     code inspects (toLowerCase), is a sequence of one-character strings *)
(*     and is rendered into a string by Join;                              *)
(*   - an argument list is a sequence; a parameter that was not passed     *)
(*     (or passed as undefined) is a position beyond the sequence's end;   *)
(*   - an object (an AST node, a source file) is its identity, a member of *)
(*     AstObjects; a field holding an identity is a reference to it;       *)
(*   - an evaluation either returns a value or throws: a completion is     *)
(*     [threw |-> BOOLEAN, value |-> ...].                                 *)
(***************************************************************************)
EXTENDS Integers, Sequences, FiniteSets, TLC

VARIABLES result

vars == <<result>>

(***************************************************************************)
(* Bounds of the model.                                                    *)
(***************************************************************************)
\* argument counts passed as got / expected range over 0..MaxCount
MaxCount == 2

(***************************************************************************)
(* The workers (compilation passes) that invoke catalog factories.         *)
(***************************************************************************)
Workers == {"w1", "w2"}

(***************************************************************************)
(* ts.DiagnosticCategory                                                   *)
(***************************************************************************)
DiagnosticCategory == [Warning |-> "Warning", Error |-> "Error"]

(***************************************************************************)
(* The AST: objects with identity.  "a.ts" and "b.ts" are SourceFile       *)
(* nodes; the other nodes hang below "a.ts".  pos is the full start (with  *)
(* leading trivia), start the token start, end the end offset.             *)
(***************************************************************************)
AstObjects == {"a.ts", "a.ts/stmt", "a.ts/stmt/expr", "b.ts"}

Ast == [n \in AstObjects |->
          CASE n = "a.ts"           -> [kind |-> "SourceFile", parent |-> "a.ts", pos |-> 0, start |-> 0, end |-> 6]
            [] n = "a.ts/stmt"      -> [kind |-> "ExpressionStatement", parent |-> "a.ts", pos |-> 0, start |-> 1, end |-> 5]
            [] n = "a.ts/stmt/expr" -> [kind |-> "Identifier", parent |-> "a.ts/stmt", pos |-> 2, start |-> 3, end |-> 5]
            [] n = "b.ts"           -> [kind |-> "SourceFile", parent |-> "b.ts", pos |-> 0, start |-> 0, end |-> 0]]

\* node.getSourceFile(): the enclosing SourceFile node, found along the parents
RECURSIVE getSourceFile(_)
getSourceFile(node) ==
    IF Ast[node].kind = "SourceFile" THEN node ELSE getSourceFile(Ast[node].parent)

\* node.getStart(): the offset of the node's first token
getStart(node) == Ast[node].start

\* node.getEnd()
getEnd(node) == Ast[node].end

\* node.getWidth(): getEnd() - getStart()
getWidth(node) == getEnd(node) - getStart(node)

(***************************************************************************)
(* Completions and argument lists.                                         *)
(***************************************************************************)
Normal(v) == [threw |-> FALSE, value |-> v]

Throw(e) == [threw |-> TRUE, value |-> e]

\* args[i] is undefined: the parameter was not passed
IsUndefined(args, i) == i > Len(args)

\* the concatenation of the characters of a character sequence
RECURSIVE Join(_)
Join(chars) == IF chars = <<>> THEN "" ELSE Head(chars) \o Join(Tail(chars))

(***************************************************************************)
(* String operations of the message providers.                             *)
(***************************************************************************)
UpperCaseLetters == <<"A", "B", "C", "D", "E", "F", "G", "H", "I", "J", "K", "L", "M",
                      "N", "O", "P", "Q", "R", "S", "T", "U", "V", "W", "X", "Y", "Z">>

LowerCaseLetters == <<"a", "b", "c", "d", "e", "f", "g", "h", "i", "j", "k", "l", "m",
                      "n", "o", "p", "q", "r", "s", "t", "u", "v", "w", "x", "y", "z">>

\* the lower-case form of one character
CharToLowerCase(c) ==
    IF \E i \in 1..Len(UpperCaseLetters) : UpperCaseLetters[i] = c
    THEN LowerCaseLetters[CHOOSE i \in 1..Len(UpperCaseLetters) : UpperCaseLetters[i] = c]
    ELSE c

\* args[i].toLowerCase(): a TypeError when args[i] is undefined
toLowerCase(args, i) ==
    IF IsUndefined(args, i)
    THEN Throw("TypeError")
    ELSE Normal([k \in 1..Len(args[i]) |-> CharToLowerCase(args[i][k])])

\* `${x}` for a string parameter x = args[i]
TemplateString(args, i) == IF IsUndefined(args, i) THEN "undefined" ELSE args[i]

\* `${x}` for a number parameter x = args[i]
TemplateNumber(args, i) == IF IsUndefined(args, i) THEN "undefined" ELSE ToString(args[i])

\* `${x}` for an AnnotationKind parameter x = args[i]
TemplateKind(args, i) == IF IsUndefined(args, i) THEN "undefined" ELSE Join(args[i])

\* the grave accent (U+0060) of the messages; a TLA+ string literal cannot hold that
\* character, so the circumflex accent stands for it
Backtick == "^"

\* Truthy with the empty string taken for a name: x !== undefined ? ... : ...
TruthyWhenDefined(args, i) == ~IsUndefined(args, i)

\* x ? ... : ... for an optional string parameter x = args[i]: undefined and "" are falsy
Truthy(args, i) == ~IsUndefined(args, i) /\ args[i] # ""

(***************************************************************************)
(* External enumerations consumed as arguments.                            *)
(***************************************************************************)
\* ts.SyntaxKind[kind]: the reverse mapping of the enum, undefined off the enum
SyntaxKindName(kind) ==
    CASE kind = 1 -> "EndOfFileToken"
      [] kind = 3 -> "MultiLineCommentTrivia"
      [] OTHER -> "undefined"

SyntaxKinds == {1, 3, -1}

\* LuaTarget (CompilerOptions)
LuaTarget == [Universal |-> "universal", Lua51 |-> "5.1", Lua52 |-> "5.2",
              Lua53 |-> "5.3", LuaJIT |-> "JIT"]

\* Exclude<LuaTarget, LuaTarget.Universal>
LuaTargetVersions == {LuaTarget.Lua51, LuaTarget.Lua53, LuaTarget.LuaJIT}

\* AnnotationKind (annotations): string-like tags
AnnotationKind == {<<"f", "o", "o">>,
                   <<"l", "u", "a", "T", "a", "b", "l", "e">>,
                   <<"M", "y", "A", "n", "n", "o", "t", "a", "t", "i", "o", "n">>}

(***************************************************************************)
(* The message providers of the catalog, each a function of the argument   *)
(* list that returns a completion.                                         *)
(***************************************************************************)
unsupportedNodeKindMessage(args) ==
    Normal("Unsupported node kind " \o
           (IF IsUndefined(args, 1) THEN "undefined" ELSE SyntaxKindName(args[1])))

unsupportedNoSelfFunctionConversionMessage(args) ==
    LET nameReference == IF Truthy(args, 1) THEN " '" \o args[1] \o "'" ELSE ""
    IN  Normal("Unable to convert function with a 'this' parameter to function"
               \o nameReference \o " with no 'this'. "
               \o "To fix, wrap in an arrow function, or declare with 'this: void'.")

unsupportedSelfFunctionConversionMessage(args) ==
    LET nameReference == IF Truthy(args, 1) THEN " '" \o args[1] \o "'" ELSE ""
    IN  Normal("Unable to convert function with no 'this' parameter to function"
               \o nameReference \o " with 'this'. "
               \o "To fix, wrap in an arrow function, or declare with 'this: any'.")

\* unsupportedOverloadAssignmentMessage testing name.length, which throws when
\* the name is not passed
unsupportedOverloadAssignmentMessageNameLength(args) ==
    IF IsUndefined(args, 1)
    THEN Throw("TypeError")
    ELSE Normal("Unsupported assignment of function with different overloaded types for 'this'"
                \o (IF args[1] # "" THEN " to '" \o args[1] \o "'" ELSE "") \o ". "
                \o "Overloads should all have the same type for 'this'.")

unsupportedOverloadAssignmentMessage(args) ==
    LET nameReference == IF Truthy(args, 1) THEN " to '" \o args[1] \o "'" ELSE ""
    IN  Normal("Unsupported assignment of function with different overloaded types for 'this'"
               \o nameReference \o ". "
               \o "Overloads should all have the same type for 'this'.")

\* annotationInvalidArgumentCountMessage with the counts in parameter order
annotationInvalidArgumentCountMessageSwapped(args) ==
    Normal("'@" \o TemplateKind(args, 1) \o "' expects " \o TemplateNumber(args, 2)
           \o " arguments, but got " \o TemplateNumber(args, 3) \o ".")

annotationInvalidArgumentCountMessage(args) ==
    Normal("'@" \o TemplateKind(args, 1) \o "' expects " \o TemplateNumber(args, 3)
           \o " arguments, but got " \o TemplateNumber(args, 2) \o ".")

invalidForRangeCallMessage(args) ==
    Normal("Invalid @forRange call: " \o TemplateString(args, 1) \o ".")

luaTableForbiddenUsageMessage(args) ==
    Normal("Invalid @luaTable usage: " \o TemplateString(args, 1) \o ".")

\* getLuaTargetName without the LuaJIT alias
getLuaTargetNameNoAlias(version) == "Lua " \o version

getLuaTargetName(version) ==
    IF version = LuaTarget.LuaJIT THEN "LuaJIT" ELSE "Lua " \o version

unsupportedForTargetMessage(args) ==
    Normal(TemplateString(args, 1) \o " is/are not supported for target "
           \o (IF IsUndefined(args, 2) THEN "Lua undefined" ELSE getLuaTargetName(args[2]))
           \o ".")

unsupportedPropertyMessage(args) ==
    Normal(TemplateString(args, 1) \o "." \o TemplateString(args, 2) \o " is unsupported.")

invalidAmbientIdentifierNameMessage(args) ==
    Normal("Invalid ambient identifier name '" \o TemplateString(args, 1)
           \o "'. Ambient identifiers must be valid lua identifiers.")

unresolvableRequirePathMessage(args) ==
    Normal("Cannot create require path. Module '" \o TemplateString(args, 1)
           \o "' does not exist within --rootDir.")

\* annotationDeprecatedMessage lower-casing the kind in the body as well
annotationDeprecatedMessageLowerBody(args) ==
    LET lower == toLowerCase(args, 1)
    IN  IF lower.threw
        THEN lower
        ELSE Normal("'@" \o Join(lower.value)
                    \o "' is deprecated and will be removed in a future update. Please update your code before upgrading to the next release, otherwise your project will no longer compile. "
                    \o "See https://typescripttolua.github.io/docs/advanced/compiler-annotations#"
                    \o Join(lower.value) \o " for more information.")

annotationDeprecatedMessage(args) ==
    LET lower == toLowerCase(args, 1)
    IN  IF lower.threw
        THEN lower
        ELSE Normal("'@" \o TemplateKind(args, 1)
                    \o "' is deprecated and will be removed in a future update. Please update your code before upgrading to the next release, otherwise your project will no longer compile. "
                    \o "See https://typescripttolua.github.io/docs/advanced/compiler-annotations#"
                    \o Join(lower.value) \o " for more information.")

(***************************************************************************)
(* MessageProvider<TArgs> = string | ((...args: TArgs) => string): a       *)
(* constant string, or one of the catalog's provider functions, named.     *)
(***************************************************************************)
StringProvider(text) == [type |-> "string", value |-> text]

FunctionProvider(name) == [type |-> "function", value |-> name]

\* message(...args) for a function provider
CallMessage(message, args) ==
    CASE message.value = "unsupportedNodeKind" -> unsupportedNodeKindMessage(args)
      [] message.value = "unsupportedNoSelfFunctionConversion" -> unsupportedNoSelfFunctionConversionMessage(args)
      [] message.value = "unsupportedSelfFunctionConversion" -> unsupportedSelfFunctionConversionMessage(args)
      [] message.value = "unsupportedOverloadAssignment" -> unsupportedOverloadAssignmentMessage(args)
      [] message.value = "annotationInvalidArgumentCount" -> annotationInvalidArgumentCountMessage(args)
      [] message.value = "invalidForRangeCall" -> invalidForRangeCallMessage(args)
      [] message.value = "luaTableForbiddenUsage" -> luaTableForbiddenUsageMessage(args)
      [] message.value = "unsupportedForTarget" -> unsupportedForTargetMessage(args)
      [] message.value = "unsupportedProperty" -> unsupportedPropertyMessage(args)
      [] message.value = "invalidAmbientIdentifierName" -> invalidAmbientIdentifierNameMessage(args)
      [] message.value = "unresolvableRequirePath" -> unresolvableRequirePathMessage(args)
      [] message.value = "annotationDeprecated" -> annotationDeprecatedMessage(args)

(***************************************************************************)
(* The factory builder.                                                    *)
(***************************************************************************)
\* Create with the full start and full width of the node (leading trivia included)
CreateFullStart(category, message, node, args) ==
    LET messageText == IF message.type = "string" THEN Normal(message.value)
                                                  ELSE CallMessage(message, args)
    IN  IF messageText.threw
        THEN messageText
        ELSE Normal([file        |-> getSourceFile(node),
                     start       |-> Ast[node].pos,
                     length      |-> getEnd(node) - Ast[node].pos,
                     messageText |-> messageText.value,
                     category    |-> category])

\* Create keeping the node itself as the file
CreateFileIsNode(category, message, node, args) ==
    LET messageText == IF message.type = "string" THEN Normal(message.value)
                                                  ELSE CallMessage(message, args)
    IN  IF messageText.threw
        THEN messageText
        ELSE Normal([file        |-> node,
                     start       |-> getStart(node),
                     length      |-> getWidth(node),
                     messageText |-> messageText.value,
                     category    |-> category])

\* Create numbering its records with a counter of the records not yet accepted
CreateCounting(category, message, node, args) ==
    LET messageText == IF message.type = "string" THEN Normal(message.value)
                                                  ELSE CallMessage(message, args)
        counter == Cardinality({w \in Workers : result[w].status # "idle"})
    IN  IF messageText.threw
        THEN messageText
        ELSE Normal([file        |-> getSourceFile(node),
                     start       |-> getStart(node),
                     length      |-> getWidth(node),
                     messageText |-> messageText.value \o " (" \o ToString(counter) \o ")",
                     category    |-> category])

\* Create taking a constant string for a format of the first argument
CreateFormatted(category, message, node, args) ==
    LET messageText == IF message.type = "string"
                       THEN Normal(message.value
                                   \o (IF IsUndefined(args, 1) THEN "" ELSE " " \o args[1]))
                       ELSE CallMessage(message, args)
    IN  IF messageText.threw
        THEN messageText
        ELSE Normal([file        |-> getSourceFile(node),
                     start       |-> getStart(node),
                     length      |-> getWidth(node),
                     messageText |-> messageText.value,
                     category    |-> category])

\* the function handed to createSerialDiagnosticFactory, applied to (node, ...args)
Create(category, message, node, args) ==
    LET messageText == IF message.type = "string" THEN Normal(message.value)
                                                  ELSE CallMessage(message, args)
    IN  IF messageText.threw
        THEN messageText
        ELSE Normal([file        |-> getSourceFile(node),
                     start       |-> getStart(node),
                     length      |-> getWidth(node),
                     messageText |-> messageText.value,
                     category    |-> category])

\* createSerialDiagnosticFactory(create): the factory is the create function
createSerialDiagnosticFactory(create) == create

\* a factory closes over the category and the message provider it was built with
createDiagnosticFactory(category, message) ==
    createSerialDiagnosticFactory([category |-> category, message |-> message])

createErrorDiagnosticFactory(message) ==
    createDiagnosticFactory(DiagnosticCategory.Error, message)

\* createWarningDiagnosticFactory building with the Error category
createWarningDiagnosticFactoryAsError(message) ==
    createDiagnosticFactory(DiagnosticCategory.Error, message)

createWarningDiagnosticFactory(message) ==
    createDiagnosticFactory(DiagnosticCategory.Warning, message)

\* factory(node, ...args)
CallFactory(factory, node, args) == Create(factory.category, factory.message, node, args)

(***************************************************************************)
(* The catalog.                                                            *)
(***************************************************************************)
unsupportedNodeKind ==
    createErrorDiagnosticFactory(FunctionProvider("unsupportedNodeKind"))

forbiddenForIn ==
    createErrorDiagnosticFactory(StringProvider(
        "Iterating over arrays with 'for ... in' is not allowed."))

unsupportedNoSelfFunctionConversion ==
    createErrorDiagnosticFactory(FunctionProvider("unsupportedNoSelfFunctionConversion"))

unsupportedSelfFunctionConversion ==
    createErrorDiagnosticFactory(FunctionProvider("unsupportedSelfFunctionConversion"))

unsupportedOverloadAssignment ==
    createErrorDiagnosticFactory(FunctionProvider("unsupportedOverloadAssignment"))

decoratorInvalidContext ==
    createErrorDiagnosticFactory(StringProvider(
        "Decorator function cannot have 'this: void'."))

annotationInvalidArgumentCount ==
    createErrorDiagnosticFactory(FunctionProvider("annotationInvalidArgumentCount"))

extensionCannotConstruct ==
    createErrorDiagnosticFactory(StringProvider(
        "Cannot construct classes with '@extension' or '@metaExtension' annotation."))

extensionCannotExtend ==
    createErrorDiagnosticFactory(StringProvider(
        "Cannot extend classes with '@extension' or '@metaExtension' annotation."))

extensionCannotExport ==
    createErrorDiagnosticFactory(StringProvider(
        "Cannot export classes with '@extension' or '@metaExtension' annotation."))

extensionInvalidInstanceOf ==
    createErrorDiagnosticFactory(StringProvider(
        "Cannot use instanceof on classes with '@extension' or '@metaExtension' annotation."))

extensionAndMetaExtensionConflict ==
    createErrorDiagnosticFactory(StringProvider(
        "Cannot use both '@extension' and '@metaExtension' annotations on the same class."))

metaExtensionMissingExtends ==
    createErrorDiagnosticFactory(StringProvider(
        "'@metaExtension' annotation requires the extension of the metatable class."))

invalidForRangeCall ==
    createErrorDiagnosticFactory(FunctionProvider("invalidForRangeCall"))

luaTableMustBeAmbient ==
    createErrorDiagnosticFactory(StringProvider(
        "Classes with the '@luaTable' annotation must be ambient."))

luaTableCannotBeExtended ==
    createErrorDiagnosticFactory(StringProvider(
        "Cannot extend classes with the '@luaTable' annotation."))

luaTableInvalidInstanceOf ==
    createErrorDiagnosticFactory(StringProvider(
        "The instanceof operator cannot be used with a '@luaTable' class."))

luaTableCannotBeAccessedDynamically ==
    createErrorDiagnosticFactory(StringProvider(
        "@luaTable cannot be accessed dynamically."))

luaTableForbiddenUsage ==
    createErrorDiagnosticFactory(FunctionProvider("luaTableForbiddenUsage"))

luaIteratorForbiddenUsage ==
    createErrorDiagnosticFactory(StringProvider(
        "Unsupported use of lua iterator with '@tupleReturn' annotation in for...of statement. "
        \o "You must use a destructuring statement to catch results from a lua iterator with "
        \o "the '@tupleReturn' annotation."))

unsupportedAccessorInObjectLiteral ==
    createErrorDiagnosticFactory(StringProvider(
        "Accessors in object literal are not supported."))

unsupportedRightShiftOperator ==
    createErrorDiagnosticFactory(StringProvider(
        "Right shift operator is not supported for target Lua 5.3. Use " \o Backtick \o ">>>"
        \o Backtick \o " instead."))

unsupportedForTarget ==
    createErrorDiagnosticFactory(FunctionProvider("unsupportedForTarget"))

unsupportedProperty ==
    createErrorDiagnosticFactory(FunctionProvider("unsupportedProperty"))

invalidAmbientIdentifierName ==
    createErrorDiagnosticFactory(FunctionProvider("invalidAmbientIdentifierName"))

unresolvableRequirePath ==
    createErrorDiagnosticFactory(FunctionProvider("unresolvableRequirePath"))

unsupportedVarDeclaration ==
    createErrorDiagnosticFactory(StringProvider(
        Backtick \o "var" \o Backtick \o " declarations are not supported. Use " \o Backtick \o "let"
        \o Backtick \o " or " \o Backtick \o "const" \o Backtick \o " instead."))

annotationDeprecated ==
    createWarningDiagnosticFactory(FunctionProvider("annotationDeprecated"))

Catalog ==
    [unsupportedNodeKind |-> unsupportedNodeKind,
     forbiddenForIn |-> forbiddenForIn,
     unsupportedNoSelfFunctionConversion |-> unsupportedNoSelfFunctionConversion,
     unsupportedSelfFunctionConversion |-> unsupportedSelfFunctionConversion,
     unsupportedOverloadAssignment |-> unsupportedOverloadAssignment,
     decoratorInvalidContext |-> decoratorInvalidContext,
     annotationInvalidArgumentCount |-> annotationInvalidArgumentCount,
     extensionCannotConstruct |-> extensionCannotConstruct,
     extensionCannotExtend |-> extensionCannotExtend,
     extensionCannotExport |-> extensionCannotExport,
     extensionInvalidInstanceOf |-> extensionInvalidInstanceOf,
     extensionAndMetaExtensionConflict |-> extensionAndMetaExtensionConflict,
     metaExtensionMissingExtends |-> metaExtensionMissingExtends,
     invalidForRangeCall |-> invalidForRangeCall,
     luaTableMustBeAmbient |-> luaTableMustBeAmbient,
     luaTableCannotBeExtended |-> luaTableCannotBeExtended,
     luaTableInvalidInstanceOf |-> luaTableInvalidInstanceOf,
     luaTableCannotBeAccessedDynamically |-> luaTableCannotBeAccessedDynamically,
     luaTableForbiddenUsage |-> luaTableForbiddenUsage,
     luaIteratorForbiddenUsage |-> luaIteratorForbiddenUsage,
     unsupportedAccessorInObjectLiteral |-> unsupportedAccessorInObjectLiteral,
     unsupportedRightShiftOperator |-> unsupportedRightShiftOperator,
     unsupportedForTarget |-> unsupportedForTarget,
     unsupportedProperty |-> unsupportedProperty,
     invalidAmbientIdentifierName |-> invalidAmbientIdentifierName,
     unresolvableRequirePath |-> unresolvableRequirePath,
     unsupportedVarDeclaration |-> unsupportedVarDeclaration,
     annotationDeprecated |-> annotationDeprecated]


(***************************************************************************)
(* The argument lists the callers pass.                                    *)
(***************************************************************************)
\* strings passed for a required string parameter
Strings == {"x", "foo"}

\* an optional name: not passed, the empty string, or a name
OptionalNames == {<<>>, <<"">>, <<"x">>, <<"foo">>}

Counts == 0..MaxCount

ArgsOf(name) ==
    CASE name = "unsupportedNodeKind" -> {<<k>> : k \in SyntaxKinds}
      [] name \in {"unsupportedNoSelfFunctionConversion", "unsupportedSelfFunctionConversion",
                   "unsupportedOverloadAssignment"} -> OptionalNames
      [] name = "annotationInvalidArgumentCount" ->
             {<<k, got, expected>> : k \in AnnotationKind, got \in Counts, expected \in Counts}
      [] name \in {"invalidForRangeCall", "luaTableForbiddenUsage",
                   "invalidAmbientIdentifierName", "unresolvableRequirePath"} ->
             {<<s>> : s \in Strings}
      [] name = "unsupportedForTarget" ->
             {<<f, v>> : f \in Strings, v \in LuaTargetVersions}
      [] name = "unsupportedProperty" -> {<<p, q>> : p \in {"Math"}, q \in Strings}
      [] name = "annotationDeprecated" -> {<<k>> : k \in AnnotationKind}
      [] OTHER -> {<<>>, <<"x">>}

(***************************************************************************)
(* State: per worker, the invocation it has made and not yet handed on.    *)
(***************************************************************************)
Idle == [status |-> "idle"]

Init == result = [w \in Workers |-> Idle]

\* worker w evaluates Catalog[name](node, ...args)
Invoke(w, name, node, args) ==
    /\ result[w] = Idle
    /\ LET completion == CallFactory(Catalog[name], node, args)
       IN  result' = [result EXCEPT ![w] =
                        IF completion.threw
                        THEN [status |-> "threw", factory |-> name, node |-> node,
                              args |-> args, error |-> completion.value]
                        ELSE [status |-> "returned", factory |-> name, node |-> node,
                              args |-> args, record |-> completion.value]]

\* the diagnostic sink accepts the record worker w produced
Accept(w) ==
    /\ result[w].status = "returned"
    /\ result' = [result EXCEPT ![w] = Idle]

Next ==
    \/ \E w \in Workers, name \in DOMAIN Catalog, node \in AstObjects :
          \E args \in ArgsOf(name) : Invoke(w, name, node, args)
    \/ \E w \in Workers : Accept(w)

Spec == Init /\ [][Next]_vars

(***************************************************************************)
(* Properties.                                                             *)
(***************************************************************************)
Returned(w) == result[w].status = "returned"

Invoked(w) == result[w].status # "idle"

OptionalNameFamily == {"unsupportedNoSelfFunctionConversion",
                       "unsupportedSelfFunctionConversion",
                       "unsupportedOverloadAssignment"}

\* C1: the record of every factory invocation has file, start and length equal
\* to node.getSourceFile(), node.getStart() and node.getWidth() of the node it
\* was invoked on, whatever the factory, its message provider and the arguments.
C1_SpanIsPositionOfNode ==
    \A w \in Workers :
        Returned(w) =>
            /\ result[w].record.file = getSourceFile(result[w].node)
            /\ result[w].record.start = getStart(result[w].node)
            /\ result[w].record.length = getWidth(result[w].node)

\* C1 witness: a parameterized factory was invoked with arguments on the nested
\* node a.ts/stmt/expr, and the record lies at offset 3, width 2 of a.ts.
C1_Witness ==
    \E w \in Workers :
        /\ Returned(w)
        /\ result[w].node = "a.ts/stmt/expr"
        /\ result[w].factory = "unsupportedProperty"
        /\ Len(result[w].args) = 2
        /\ result[w].record.file = "a.ts"
        /\ result[w].record.start = 3
        /\ result[w].record.length = 2

\* the text before and after the designated position of the optional name
OptionalNamePrefix(name) ==
    CASE name = "unsupportedNoSelfFunctionConversion" ->
             "Unable to convert function with a 'this' parameter to function"
      [] name = "unsupportedSelfFunctionConversion" ->
             "Unable to convert function with no 'this' parameter to function"
      [] name = "unsupportedOverloadAssignment" ->
             "Unsupported assignment of function with different overloaded types for 'this'"

OptionalNameSuffix(name) ==
    CASE name = "unsupportedNoSelfFunctionConversion" ->
             " with no 'this'. To fix, wrap in an arrow function, or declare with 'this: void'."
      [] name = "unsupportedSelfFunctionConversion" ->
             " with 'this'. To fix, wrap in an arrow function, or declare with 'this: any'."
      [] name = "unsupportedOverloadAssignment" ->
             ". Overloads should all have the same type for 'this'."

\* C2 as stated: for the three optional-name factories, without a name the text
\* is the fixed text with nothing at the designated position, and with a name
\* it is that text with a single space and the name in single quotes inserted.
C2_Original ==
    \A w \in Workers :
        (Returned(w) /\ result[w].factory \in OptionalNameFamily) =>
            LET f == result[w].factory
                args == result[w].args
            IN  result[w].record.messageText =
                    IF args = <<>>
                    THEN OptionalNamePrefix(f) \o OptionalNameSuffix(f)
                    ELSE OptionalNamePrefix(f) \o " '" \o args[1] \o "'"
                         \o OptionalNameSuffix(f)

\* C2 amended: without a name, or with the empty string as name, the text is the
\* fixed text with nothing at the designated position; with a non-empty name the
\* two function-conversion factories insert a space and the quoted name there,
\* and unsupportedOverloadAssignment inserts " to " and the quoted name.
C2_OptionalNameInserted ==
    \A w \in Workers :
        (Returned(w) /\ result[w].factory \in OptionalNameFamily) =>
            LET f == result[w].factory
                args == result[w].args
                inserted == IF args = <<>> \/ args = <<"">>
                            THEN ""
                            ELSE IF f = "unsupportedOverloadAssignment"
                                 THEN " to '" \o args[1] \o "'"
                                 ELSE " '" \o args[1] \o "'"
            IN  result[w].record.messageText =
                    OptionalNamePrefix(f) \o inserted \o OptionalNameSuffix(f)

\* C2 witness: the three shapes are reached: a conversion factory with the name
\* x, the overload factory with the name x, and a factory with the empty name.
C2_Witness ==
    \E w1 \in Workers, w2 \in Workers :
        /\ Returned(w1) /\ Returned(w2)
        /\ result[w1].factory = "unsupportedOverloadAssignment"
        /\ result[w1].args = <<"x">>
        /\ result[w1].record.messageText =
               "Unsupported assignment of function with different overloaded types for 'this' to 'x'. Overloads should all have the same type for 'this'."
        /\ result[w2].factory = "unsupportedSelfFunctionConversion"
        /\ result[w2].args = <<"">>
        /\ result[w2].record.messageText =
               "Unable to convert function with no 'this' parameter to function with 'this'. To fix, wrap in an arrow function, or declare with 'this: any'."

C4_EveryInvocationYieldsOneRecord ==
    \A w \in Workers :
        Invoked(w) =>
            /\ result[w].status = "returned"
            /\ {"file", "start", "length", "messageText", "category"}
                   \subseteq DOMAIN result[w].record

\* C4 witness: annotationDeprecated, whose provider calls a method of its
\* argument, and an optional-name factory called without the name, returned.
C4_Witness ==
    \E w1 \in Workers, w2 \in Workers :
        /\ Returned(w1) /\ result[w1].factory = "annotationDeprecated"
        /\ Returned(w2) /\ result[w2].factory \in OptionalNameFamily
        /\ result[w2].args = <<>>

WarningFactories == {"annotationDeprecated"}

\* C6: every record of a factory built with the warning constructor has
\* category Warning and every record of a factory built with the error
\* constructor has category Error, whatever the node and the arguments.
C6_CategoryFixedPerFactory ==
    \A w \in Workers :
        Returned(w) =>
            result[w].record.category =
                IF result[w].factory \in WarningFactories
                THEN DiagnosticCategory.Warning
                ELSE DiagnosticCategory.Error

\* C6 witness: a Warning record and an Error record are pending together.
C6_Witness ==
    \E w1 \in Workers, w2 \in Workers :
        /\ Returned(w1) /\ result[w1].factory = "annotationDeprecated"
        /\ result[w1].record.category = "Warning"
        /\ Returned(w2) /\ result[w2].factory = "forbiddenForIn"
        /\ result[w2].record.category = "Error"

\* C7: annotationInvalidArgumentCount(node, kind, got, expected) has the text
\* '@<kind>' expects <expected> arguments, but got <got>. with the counts as
\* plain integers and "arguments" never singularized.
C7_ArgumentCountText ==
    \A w \in Workers :
        (Returned(w) /\ result[w].factory = "annotationInvalidArgumentCount") =>
            LET kind == result[w].args[1]
                got == result[w].args[2]
                expected == result[w].args[3]
            IN  /\ result[w].record.messageText =
                       "'@" \o Join(kind) \o "' expects " \o ToString(expected)
                       \o " arguments, but got " \o ToString(got) \o "."
                /\ (kind = <<"f", "o", "o">> /\ got = 2 /\ expected = 1) =>
                       result[w].record.messageText =
                           "'@foo' expects 1 arguments, but got 2."

\* C7 witness: the invocation (kind foo, got 2, expected 1) returned.
C7_Witness ==
    \E w \in Workers :
        /\ Returned(w)
        /\ result[w].factory = "annotationInvalidArgumentCount"
        /\ result[w].args = <<(<<"f", "o", "o">>), 2, 1>>
        /\ result[w].record.messageText = "'@foo' expects 1 arguments, but got 2."

\* C8: unsupportedForTarget(node, functionality, version) has the text
\* <functionality> is/are not supported for target <name>. where <name> is
\* LuaJIT for the LuaJIT target and Lua <version> for every other target.
C8_TargetName ==
    \A w \in Workers :
        (Returned(w) /\ result[w].factory = "unsupportedForTarget") =>
            LET functionality == result[w].args[1]
                version == result[w].args[2]
            IN  result[w].record.messageText =
                    functionality \o " is/are not supported for target "
                    \o (IF version = LuaTarget.LuaJIT THEN "LuaJIT" ELSE "Lua " \o version)
                    \o "."

\* C8 witness: the LuaJIT target and the 5.3 target were both reported.
C8_Witness ==
    \E w1 \in Workers, w2 \in Workers :
        /\ Returned(w1) /\ result[w1].factory = "unsupportedForTarget"
        /\ result[w1].args = <<"x", LuaTarget.LuaJIT>>
        /\ result[w1].record.messageText = "x is/are not supported for target LuaJIT."
        /\ Returned(w2) /\ result[w2].factory = "unsupportedForTarget"
        /\ result[w2].args = <<"x", LuaTarget.Lua53>>
        /\ result[w2].record.messageText = "x is/are not supported for target Lua 5.3."

\* the characters of a are those of k, the upper-case letters lower-cased
IsLowerCaseOf(a, k) ==
    /\ Len(a) = Len(k)
    /\ \A i \in 1..Len(k) :
           IF \E j \in 1..Len(UpperCaseLetters) : UpperCaseLetters[j] = k[i]
           THEN \E j \in 1..Len(UpperCaseLetters) :
                    UpperCaseLetters[j] = k[i] /\ a[i] = LowerCaseLetters[j]
           ELSE a[i] = k[i]

\* C9: annotationDeprecated(node, kind) is a Warning whose text names '@<kind>'
\* in the kind's own case and ends its documentation reference in # followed by
\* the lower-cased kind; only the reference fragment is lower-cased.
C9_DeprecatedText ==
    \A w \in Workers :
        (Returned(w) /\ result[w].factory = "annotationDeprecated") =>
            LET kind == result[w].args[1]
            IN  /\ result[w].record.category = DiagnosticCategory.Warning
                /\ \E anchor \in AnnotationKind \cup {toLowerCase(<<k>>, 1).value : k \in AnnotationKind} :
                       /\ IsLowerCaseOf(anchor, kind)
                       /\ result[w].record.messageText =
                              "'@" \o Join(kind)
                              \o "' is deprecated and will be removed in a future update. Please update your code before upgrading to the next release, otherwise your project will no longer compile. See https://typescripttolua.github.io/docs/advanced/compiler-annotations#"
                              \o Join(anchor) \o " for more information."

\* C9 witness: the kind MyAnnotation was reported, with '@MyAnnotation' in the
\* body and #myannotation in the reference.
C9_Witness ==
    \E w \in Workers :
        /\ Returned(w)
        /\ result[w].factory = "annotationDeprecated"
        /\ result[w].args = <<(<<"M", "y", "A", "n", "n", "o", "t", "a", "t", "i", "o", "n">>)>>
        /\ result[w].record.messageText =
               "'@MyAnnotation' is deprecated and will be removed in a future update. Please update your code before upgrading to the next release, otherwise your project will no longer compile. See https://typescripttolua.github.io/docs/advanced/compiler-annotations#myannotation for more information."

\* C10: the text of a record is the provider itself when the provider is a
\* constant string and provider(...args) otherwise; so the records of a factory
\* built with a constant string all have the same text, whatever the node and
\* the arguments.
C10_StaticProviderText ==
    /\ \A w \in Workers :
           Returned(w) =>
               LET message == Catalog[result[w].factory].message
               IN  /\ result[w].record.messageText =
                          IF message.type = "string"
                          THEN message.value
                          ELSE CallMessage(message, result[w].args).value
                   /\ result[w].factory = "forbiddenForIn" =>
                          result[w].record.messageText =
                              "Iterating over arrays with 'for ... in' is not allowed."
    /\ \A w1 \in Workers, w2 \in Workers :
           (/\ Returned(w1) /\ Returned(w2)
            /\ result[w1].factory = result[w2].factory
            /\ Catalog[result[w1].factory].message.type = "string")
               => result[w1].record.messageText = result[w2].record.messageText

\* C10 witness: forbiddenForIn was invoked on two nodes, once without and once
\* with an argument, and rendered the same text.
C10_Witness ==
    \E w1 \in Workers, w2 \in Workers :
        /\ Returned(w1) /\ Returned(w2)
        /\ result[w1].factory = "forbiddenForIn" /\ result[w2].factory = "forbiddenForIn"
        /\ result[w1].node # result[w2].node
        /\ result[w1].args = <<>> /\ result[w2].args = <<"x">>
        /\ result[w1].record.messageText = result[w2].record.messageText

====
